---- MODULE Spec2Model ----
(***************************************************************************)
(* Adaptive average pooling (aten/src/ATen/native/AdaptiveAveragePooling   *)
(* .cpp) and the profiler's RecordFunctionHolder and future wrapper        *)
(* (torch/csrc/autograd/record_function_ops.cpp).                          *)
(*                                                                         *)
(* A tensor is a record of its sizes, dtype, memory format, backend flags  *)
(* and a tag standing for its contents.  One operator call is one action;  *)
(* the call's arguments are chosen from bounded sets and kept in the       *)
(* state next to the call's outcome and the sequence of ATen primitives it *)
(* invoked (trace).                                                        *)
(***************************************************************************)
EXTENDS Integers, Sequences, FiniteSets, TLC

\* ------------------------------------------------------------------ bounds
MaxDim == 2
MaxOut == 2
MaxGradDim == 1
MaxCalls == 2

Ranks == 2..5
Dtypes == {"Float", "Double"}
MemoryFormats == {"Contiguous", "ChannelsLast"}

VARIABLES
  op,            \* the operator called last, "none" between calls
  input,         \* the input argument
  output_size,   \* the output_size argument
  output0,       \* the output tensor as the caller supplied it (out variant)
  output,        \* the output tensor after the call
  result,        \* the tensor the call returned, NoTensor when it raised
  grad_output,   \* backward: the grad_output argument
  grad_input0,   \* backward: grad_input as supplied (out variant)
  grad_input,    \* backward: grad_input after the call
  seen,          \* backward: grad_input as the backward kernel received it
  err,           \* "none" or the kind of error the call raised
  trace,         \* the primitives the call invoked, in order
  holders,       \* profiler: RecordFunctionHolder objects
  enterCalls,    \* profiler: per holder, calls of enter()
  exitOk,        \* profiler: per holder, calls of exit() that returned
  exitFailed,    \* profiler: per holder, calls of exit() that raised
  fut,           \* profiler: the wrapped future
  profiledFut,   \* profiler: the future _call_end_callbacks_on_fut returned
  captured,      \* profiler: the holder captured by the continuation
  cb,            \* profiler: position of the continuation
  cbHolder,      \* profiler: the captured holder as the continuation found it
  cbResult,      \* profiler: what the continuation returned or raised
  events         \* profiler: order of resolve / exit / returned-resolve

poolVars == <<op, input, output_size, output0, output, result, grad_output,
              grad_input0, grad_input, seen, err, trace>>
profVars == <<holders, enterCalls, exitOk, exitFailed, fut, profiledFut,
              captured, cb, cbHolder, cbResult, events>>
vars == <<poolVars, profVars>>

\* ----------------------------------------------------------------- tensors
Tensor(sizes, dtype, fmt, data) ==
  [sizes |-> sizes, dtype |-> dtype, memory_format |-> fmt, data |-> data,
   is_mkldnn |-> FALSE, is_quantized |-> FALSE, is_xpu |-> FALSE]

NoTensor == Tensor(<<>>, "Undefined", "Contiguous", "none")

dim(t) == Len(t.sizes)

\* Tensor::size(i) with a negative i counting from the end
size(t, i) == t.sizes[IF i < 0 THEN dim(t) + i + 1 ELSE i + 1]

RECURSIVE prod(_)
prod(s) == IF Len(s) = 0 THEN 1 ELSE Head(s) * prod(Tail(s))

numel(t) == prod(t.sizes)

HasNegative(s) == \E i \in 1..Len(s) : s[i] < 0

\* Tensor::resize_: the new sizes and memory format; the contents survive
\* only when the sizes do not change.  The code of resize_ for a negative
\* size is not part of these files: both a raise from inside resize_ and a
\* tensor left with the sizes as given are allowed.
resize_(t, sizes, fmt) ==
  LET done == [t EXCEPT !.sizes = sizes, !.memory_format = fmt,
                        !.data = IF t.sizes = sizes THEN t.data ELSE "uninit"]
  IN  IF HasNegative(sizes)
      THEN {[err |-> "ResizeError", t |-> t], [err |-> "none", t |-> done]}
      ELSE {[err |-> "none", t |-> done]}

\* at::empty({0}, input.options())
empty0(in) == [in EXCEPT !.sizes = <<0>>, !.memory_format = "Contiguous", !.data = "uninit"]

\* the per-device forward kernel fills output
adaptive_avg_pool2d_kernel(out, in, osize) == [out EXCEPT !.data = "pooled"]

\* the per-device backward kernel accumulates into grad_input
adaptive_avg_pool2d_backward_kernel(gin, gout) ==
  [gin EXCEPT !.data = IF gin.data = "zero" THEN "grad" ELSE "garbage"]

zero_(t) == [t EXCEPT !.data = "zero"]

Outcome(e, t, tr) == [err |-> e, out |-> t, trace |-> tr]

\* ------------------------------------------- adaptive_avg_pool2d (forward)
\* out_cpu_template_checks with the dtype check left out
out_cpu_template_checks_no_dtype(out, in, osize) ==
  IF Len(osize) # 2 THEN "ShapeContractViolation"
  ELSE IF ~(dim(in) = 3 \/ dim(in) = 4) THEN "ShapeContractViolation"
  ELSE IF \E i \in {-2, -1} : ~(size(in, i) > 0) THEN "ShapeContractViolation"
  ELSE "none"

\* The TORCH_CHECKs of adaptive_avg_pool2d_out_cpu_template, in order.
out_cpu_template_checks(out, in, osize) ==
  IF Len(osize) # 2 THEN "ShapeContractViolation"
  ELSE IF ~(dim(in) = 3 \/ dim(in) = 4) THEN "ShapeContractViolation"
  ELSE IF \E i \in {-2, -1} : ~(size(in, i) > 0) THEN "ShapeContractViolation"
  ELSE IF in.dtype # out.dtype THEN "DtypeMismatch"
  ELSE "none"

\* out_cpu_template_sizes with the batch size taken for the channels
out_cpu_template_sizes_batch_as_channels(in, osize) ==
  IF dim(in) = 3
  THEN <<size(in, -3), osize[1], osize[2]>>
  ELSE <<size(in, 0), size(in, 0), osize[1], osize[2]>>

\* The sizes output is resized to.
out_cpu_template_sizes(in, osize) ==
  LET channels == size(in, -3)
      output_height == osize[1]
      output_width == osize[2]
  IN  IF dim(in) = 3
      THEN <<channels, output_height, output_width>>
      ELSE <<size(in, 0), channels, output_height, output_width>>

\* The memory format output is resized with.
out_cpu_template_format(in) ==
  IF dim(in) = 3 THEN "Contiguous" ELSE in.memory_format

\* out_cpu_template_is_empty with the early return dropped
out_cpu_template_is_empty_never(out) == FALSE

\* if (output.numel() == 0) return;
out_cpu_template_is_empty(out) == numel(out) = 0

adaptive_avg_pool2d_out_cpu_template(out, in, osize) ==
  LET e == out_cpu_template_checks(out, in, osize)
  IN  IF e # "none" THEN {Outcome(e, out, <<>>)}
      ELSE { IF r.err # "none"
               THEN Outcome(r.err, r.t, <<"resize_">>)
             ELSE IF out_cpu_template_is_empty(r.t)
               THEN Outcome("none", r.t, <<"resize_">>)
             ELSE Outcome("none", adaptive_avg_pool2d_kernel(r.t, in, osize),
                          <<"resize_", "adaptive_avg_pool2d_kernel">>)
             : r \in resize_(out, out_cpu_template_sizes(in, osize),
                             out_cpu_template_format(in)) }

adaptive_avg_pool2d_cpu(in, osize) ==
  adaptive_avg_pool2d_out_cpu_template(empty0(in), in, osize)

\* The two TORCH_CHECKs of adaptive_avg_pool2d_symint.
symint_checks(osize) ==
  IF Len(osize) # 2 THEN "ShapeContractViolation"
  ELSE IF ~(osize[1] >= 0 /\ osize[2] >= 0) THEN "ShapeContractViolation"
  ELSE "none"

\* symint_path with the 1x1 test made before the mkldnn test
symint_path_mean_first(in, osize) ==
  IF ~in.is_quantized /\ osize[1] = 1 /\ osize[2] = 1 /\ ~in.is_xpu
    THEN "global_mean"
  ELSE IF in.is_mkldnn THEN "mkldnn"
  ELSE "generic"

\* The branch adaptive_avg_pool2d_symint takes once its checks passed.
symint_path(in, osize) ==
  IF in.is_mkldnn THEN "mkldnn"
  ELSE IF ~in.is_quantized /\ osize[1] = 1 /\ osize[2] = 1 /\ ~in.is_xpu
    THEN "global_mean"
  ELSE "generic"

\* sizes with the last two replaced (keepdim reduction, backend pooling)
ReplaceLast2(s, a, b) == SubSeq(s, 1, Len(s) - 2) \o <<a, b>>

\* at::mkldnn_adaptive_avg_pool2d: the backend's own primitive
mkldnn_adaptive_avg_pool2d(in, osize) ==
  IF dim(in) < 2 THEN {Outcome("BackendError", NoTensor, <<"mkldnn_adaptive_avg_pool2d">>)}
  ELSE {Outcome("none",
                [in EXCEPT !.sizes = ReplaceLast2(in.sizes, osize[1], osize[2]),
                           !.data = "mkldnn_pooled"],
                <<"mkldnn_adaptive_avg_pool2d">>)}

\* input.mean({-1, -2}, keepdim = true): no rank or emptiness check of its
\* own beyond the two reduced dimensions having to exist
mean_hw(in) ==
  IF dim(in) < 2 THEN Outcome("IndexError", NoTensor, <<"mean">>)
  ELSE Outcome("none",
               [in EXCEPT !.sizes = ReplaceLast2(in.sizes, 1, 1),
                          !.memory_format = "Contiguous", !.data = "mean"],
               <<"mean">>)

\* lines 130-137: mean, then the channels-last stride fix-up
symint_global_mean(in) ==
  LET m == mean_hw(in)
  IN  IF m.err # "none" THEN m
      ELSE IF in.memory_format = "ChannelsLast"
        THEN Outcome("none",
                     [m.out EXCEPT !.sizes = <<size(in, 0), size(in, 1), 1, 1>>,
                                   !.memory_format = "ChannelsLast"],
                     <<"mean", "as_strided_">>)
      ELSE m

\* xnnpack::use_global_average_pool: xnn says whether the build has the
\* facility (C10_MOBILE && USE_XNNPACK) and it accepts this input
use_global_average_pool(in, xnn) == xnn /\ dim(in) = 4

\* xnnpack::global_average_pool
global_average_pool(in) ==
  Outcome("none",
          [in EXCEPT !.sizes = ReplaceLast2(in.sizes, 1, 1), !.data = "mean"],
          <<"global_average_pool">>)

\* _adaptive_avg_pool2d_symint: the dispatcher's entry for the generic
\* kernel path, registered to adaptive_avg_pool2d_cpu
_adaptive_avg_pool2d(in, osize) ==
  { [o EXCEPT !.trace = <<"_adaptive_avg_pool2d">> \o o.trace,
              !.out = IF o.err = "none" THEN o.out ELSE NoTensor]
    : o \in adaptive_avg_pool2d_cpu(in, osize) }

adaptive_avg_pool2d_symint(in, osize, xnn) ==
  LET e == symint_checks(osize)
      p == symint_path(in, osize)
  IN  IF e # "none" THEN {Outcome(e, NoTensor, <<>>)}
      ELSE IF p = "mkldnn" THEN mkldnn_adaptive_avg_pool2d(in, osize)
      ELSE IF p = "global_mean"
        THEN IF use_global_average_pool(in, xnn) THEN {global_average_pool(in)}
             ELSE {symint_global_mean(in)}
      ELSE _adaptive_avg_pool2d(in, osize)

\* ------------------------------------------ adaptive_avg_pool2d (backward)
\* The TORCH_CHECKs of adaptive_avg_pool2d_backward_out_cpu_template, in order.
backward_template_checks(gin, gout, in) ==
  IF \E i \in 1..(dim(gout) - 1) : ~(size(gout, i) > 0) THEN "ShapeContractViolation"
  ELSE IF ~(dim(gout) = 3 \/ dim(gout) = 4) THEN "ShapeContractViolation"
  ELSE IF in.dtype # gout.dtype THEN "DtypeMismatch"
  ELSE IF in.dtype # gin.dtype THEN "DtypeMismatch"
  ELSE "none"

\* backward_template_body without grad_input.zero_()
backward_template_body_no_zero(gin, gout, in) ==
  { [err |-> "none", out |-> adaptive_avg_pool2d_backward_kernel(r.t, gout),
     trace |-> <<"resize_", "adaptive_avg_pool2d_backward_kernel">>,
     seen |-> r.t]
    : r \in resize_(gin, in.sizes, in.memory_format) }

\* Lines 82-85: resize_, zero_, then the backward kernel on what they left.
backward_template_body(gin, gout, in) ==
  { LET z == zero_(r.t)
    IN  [err |-> "none", out |-> adaptive_avg_pool2d_backward_kernel(z, gout),
         trace |-> <<"resize_", "zero_", "adaptive_avg_pool2d_backward_kernel">>,
         seen |-> z]
    : r \in resize_(gin, in.sizes, in.memory_format) }

adaptive_avg_pool2d_backward_out_cpu_template(gin, gout, in) ==
  LET e == backward_template_checks(gin, gout, in)
  IN  IF e # "none"
      THEN {[err |-> e, out |-> gin, trace |-> <<>>, seen |-> NoTensor]}
      ELSE backward_template_body(gin, gout, in)

\* ------------------------------------------------------- argument sets
Shapes == UNION {[1..r -> 0..MaxDim] : r \in Ranks}
GradShapes == UNION {[1..r -> 0..MaxGradDim] : r \in Ranks}

\* output_size: every pair over -1..MaxOut, and one list of each wrong length
OutputSizes == [1..2 -> -1..MaxOut] \cup {<<1>>, <<1, 1, 1>>}

\* suggest_memory_format() gives ChannelsLast for 4-d tensors only
FormatsOf(s) == IF Len(s) = 4 THEN MemoryFormats ELSE {"Contiguous"}

DenseInputs(shapes, dtypes) ==
  {Tensor(s, d, f, "data") : s \in shapes, d \in dtypes, f \in MemoryFormats}
    \ {t \in {Tensor(s, d, "ChannelsLast", "data") : s \in shapes, d \in dtypes}
          : dim(t) # 4}

\* inputs of the composite operator: any backend
SymintInputs ==
  {[t EXCEPT !.is_mkldnn = m, !.is_quantized = q, !.is_xpu = x]
     : t \in DenseInputs(Shapes, {"Float"}), m \in BOOLEAN, q \in BOOLEAN, x \in BOOLEAN}

\* tensors a caller passes as output or grad_input
CallerTensors ==
  {Tensor(s, d, "Contiguous", "old")
     : s \in {<<0>>, <<1, 1, 1>>, <<2, 1, 2, 2>>}, d \in Dtypes}

\* the forward inputs a backward call is given
BackwardInputs == DenseInputs({<<1, 2, 2>>, <<2, 1, 2, 2>>, <<1, 0, 1, 1>>}, Dtypes)

\* ---------------------------------------------------------------- Init
Holders == 1..2

NoHolder == [allocated |-> FALSE, set |-> FALSE, name |-> "", ended |-> FALSE]
NoOutcome == [state |-> "none", payload |-> ""]

PoolIdle ==
  /\ op = "none" /\ input = NoTensor /\ output_size = <<>>
  /\ output0 = NoTensor /\ output = NoTensor /\ result = NoTensor
  /\ grad_output = NoTensor /\ grad_input0 = NoTensor /\ grad_input = NoTensor
  /\ seen = NoTensor /\ err = "none" /\ trace = <<>>

Init ==
  /\ PoolIdle
  /\ holders = [h \in Holders |-> NoHolder]
  /\ enterCalls = [h \in Holders |-> 0]
  /\ exitOk = [h \in Holders |-> 0]
  /\ exitFailed = [h \in Holders |-> 0]
  /\ fut = [state |-> "pending", payload |-> ""]
  /\ profiledFut = NoOutcome
  /\ captured = 0
  /\ cb = "idle"
  /\ cbHolder = NoHolder
  /\ cbResult = NoOutcome
  /\ events = <<>>

\* ------------------------------------------------------ pooling calls
Forward(name, in, osize, out0, o) ==
  /\ op' = name /\ input' = in /\ output_size' = osize
  /\ output0' = out0 /\ output' = o.out
  /\ result' = IF o.err = "none" THEN o.out ELSE NoTensor
  /\ err' = o.err /\ trace' = o.trace
  /\ UNCHANGED <<grad_output, grad_input0, grad_input, seen, profVars>>

Do_adaptive_avg_pool2d_symint ==
  /\ op = "none"
  /\ \E in \in SymintInputs, osize \in OutputSizes, xnn \in BOOLEAN :
       \E o \in adaptive_avg_pool2d_symint(in, osize, xnn) :
         Forward("adaptive_avg_pool2d_symint", in, osize, NoTensor, o)

Do_adaptive_avg_pool2d_cpu ==
  /\ op = "none"
  /\ \E in \in DenseInputs(Shapes, Dtypes), osize \in OutputSizes :
       \E o \in adaptive_avg_pool2d_cpu(in, osize) :
         Forward("adaptive_avg_pool2d_cpu", in, osize, NoTensor, o)

Do_adaptive_avg_pool2d_out_cpu ==
  /\ op = "none"
  /\ \E in \in DenseInputs(Shapes, {"Float"}), osize \in OutputSizes,
         out0 \in CallerTensors :
       \E o \in adaptive_avg_pool2d_out_cpu_template(out0, in, osize) :
         Forward("adaptive_avg_pool2d_out_cpu", in, osize, out0, o)

Backward(name, gin0, gout, in, o) ==
  /\ op' = name /\ input' = in /\ grad_output' = gout
  /\ grad_input0' = gin0 /\ grad_input' = o.out /\ seen' = o.seen
  /\ result' = IF o.err = "none" THEN o.out ELSE NoTensor
  /\ err' = o.err /\ trace' = o.trace
  /\ UNCHANGED <<output_size, output0, output, profVars>>

Do_adaptive_avg_pool2d_backward_out_cpu ==
  /\ op = "none"
  /\ \E gin0 \in CallerTensors, in \in BackwardInputs,
         gout \in DenseInputs(GradShapes, Dtypes) :
       \E o \in adaptive_avg_pool2d_backward_out_cpu_template(gin0, gout, in) :
         Backward("adaptive_avg_pool2d_backward_out_cpu", gin0, gout, in, o)

Do_adaptive_avg_pool2d_backward_cpu ==
  /\ op = "none"
  /\ \E in \in BackwardInputs, gout \in DenseInputs(GradShapes, Dtypes) :
       \E o \in adaptive_avg_pool2d_backward_out_cpu_template(empty0(in), gout, in) :
         Backward("adaptive_avg_pool2d_backward_cpu", NoTensor, gout, in, o)

\* the caller takes the result; the next call starts from fresh arguments
Return ==
  /\ op # "none"
  /\ op' = "none" /\ input' = NoTensor /\ output_size' = <<>>
  /\ output0' = NoTensor /\ output' = NoTensor /\ result' = NoTensor
  /\ grad_output' = NoTensor /\ grad_input0' = NoTensor /\ grad_input' = NoTensor
  /\ seen' = NoTensor /\ err' = "none" /\ trace' = <<>>
  /\ UNCHANGED profVars

Next ==
  \/ Do_adaptive_avg_pool2d_symint
  \/ Do_adaptive_avg_pool2d_cpu
  \/ Do_adaptive_avg_pool2d_out_cpu
  \/ Do_adaptive_avg_pool2d_backward_out_cpu
  \/ Do_adaptive_avg_pool2d_backward_cpu
  \/ Return

Spec == Init /\ [][Next]_vars

\* ------------------------------------------------ RecordFunctionHolder
Names == {"scope"}
Values == {"v1", "v2"}
Errors == {"e1", "e2"}

Allocated == {h \in Holders : holders[h].allocated}

\* record_function_ = make_unique<RecordFunction>(USER_SCOPE); before(name)
RecordFunctionHolder_enter(holder, name) ==
  [holder EXCEPT !.set = TRUE, !.name = name, !.ended = FALSE]

\* RecordFunctionHolder_exit without the TORCH_CHECK
RecordFunctionHolder_exit_unchecked(holder) ==
  [raised |-> FALSE, holder |-> [holder EXCEPT !.ended = TRUE]]

\* TORCH_CHECK(record_function_ != nullptr); record_function_->end()
RecordFunctionHolder_exit(holder) ==
  IF ~holder.set
  THEN [raised |-> TRUE, holder |-> holder]
  ELSE [raised |-> FALSE, holder |-> [holder EXCEPT !.ended = TRUE]]

\* torch::init() of the registered class: a holder with no record_function_
Construct ==
  /\ \E h \in Holders \ Allocated :
       holders' = [holders EXCEPT ![h] = [NoHolder EXCEPT !.allocated = TRUE]]
  /\ UNCHANGED <<poolVars, enterCalls, exitOk, exitFailed, fut, profiledFut,
                 captured, cb, cbHolder, cbResult, events>>

EnterOn(h, name) ==
  /\ holders' = [holders EXCEPT ![h] =
                   RecordFunctionHolder_enter([@ EXCEPT !.allocated = TRUE], name)]
  /\ enterCalls' = [enterCalls EXCEPT ![h] = @ + 1]
  /\ UNCHANGED <<poolVars, exitOk, exitFailed, fut, profiledFut,
                 captured, cb, cbHolder, cbResult, events>>

ExitOn(h) ==
  LET x == RecordFunctionHolder_exit(holders[h])
  IN  /\ holders' = [holders EXCEPT ![h] = x.holder]
      /\ exitOk' = [exitOk EXCEPT ![h] = IF x.raised THEN @ ELSE @ + 1]
      /\ exitFailed' = [exitFailed EXCEPT ![h] = IF x.raised THEN @ + 1 ELSE @]

\* record_function_enter: a new holder, entered
Do_record_function_enter ==
  \E h \in Holders \ Allocated, name \in Names : EnterOn(h, name)

\* holder->enter(name) on an existing holder
Do_enter ==
  \E h \in Allocated, name \in Names :
    /\ enterCalls[h] < MaxCalls
    /\ EnterOn(h, name)

\* holder->exit() on an existing holder
Do_exit ==
  \E h \in Allocated :
    /\ exitOk[h] + exitFailed[h] <= MaxCalls
    /\ ExitOn(h)
    /\ UNCHANGED <<poolVars, enterCalls, fut, profiledFut,
                   captured, cb, cbHolder, cbResult, events>>

\* record_function_exit(holder)
Do_record_function_exit ==
  \E h \in Allocated :
    /\ exitOk[h] + exitFailed[h] <= MaxCalls
    /\ ExitOn(h)
    /\ UNCHANGED <<poolVars, enterCalls, fut, profiledFut,
                   captured, cb, cbHolder, cbResult, events>>

\* ------------------------------------------- _call_end_callbacks_on_fut
Resolved(f) == f.state \in {"value", "error"}

\* Future::value(): the value, or the stored error rethrown
Future_value(f) == f

\* futureProfilingFunc returning fut.constValue(): the error is not rethrown
futureProfilingFunc_constValue(h, hs, f) ==
  IF h = 0
  THEN [called |-> FALSE, raised |-> FALSE, holder |-> NoHolder,
        result |-> [state |-> "error", payload |-> "InternalAssert"]]
  ELSE LET x == RecordFunctionHolder_exit(hs[h])
       IN  IF x.raised
           THEN [called |-> TRUE, raised |-> TRUE, holder |-> x.holder,
                 result |-> [state |-> "error", payload |-> "PreconditionViolation"]]
           ELSE [called |-> TRUE, raised |-> FALSE, holder |-> x.holder,
                 result |-> [state |-> "value",
                             payload |-> IF f.state = "value" THEN f.payload ELSE ""]]

\* futureProfilingFunc without the call of holder->exit()
futureProfilingFunc_no_exit(h, hs, f) ==
  IF h = 0
  THEN [called |-> FALSE, raised |-> FALSE, holder |-> NoHolder,
        result |-> [state |-> "error", payload |-> "InternalAssert"]]
  ELSE [called |-> FALSE, raised |-> FALSE, holder |-> hs[h],
        result |-> Future_value(f)]

\* The lambda futureProfilingFunc, run with the captured holder h (0 when
\* the intrusive_ptr is undefined) on the completed future f.
futureProfilingFunc(h, hs, f) ==
  IF h = 0
  THEN [called |-> FALSE, raised |-> FALSE, holder |-> NoHolder,
        result |-> [state |-> "error", payload |-> "InternalAssert"]]
  ELSE LET x == RecordFunctionHolder_exit(hs[h])
       IN  IF x.raised
           THEN [called |-> TRUE, raised |-> TRUE, holder |-> x.holder,
                 result |-> [state |-> "error", payload |-> "PreconditionViolation"]]
           ELSE [called |-> TRUE, raised |-> FALSE, holder |-> x.holder,
                 result |-> Future_value(f)]

\* fut->then(wrapPropagateTLSState(futureProfilingFunc), fut->elementType()):
\* a new future; the continuation is run at once when fut is already
\* completed, and on completion otherwise
Do_call_end_callbacks_on_fut ==
  /\ cb = "idle"
  /\ \E h \in Allocated \cup {0} : captured' = h
  /\ profiledFut' = [state |-> "pending", payload |-> ""]
  /\ cb' = IF Resolved(fut) THEN "ready" ELSE "waiting"
  /\ UNCHANGED <<poolVars, holders, enterCalls, exitOk, exitFailed, fut,
                 cbHolder, cbResult, events>>

Complete(outcome) ==
  /\ fut.state = "pending"
  /\ fut' = outcome
  /\ events' = Append(events, "resolved")
  /\ cb' = IF cb = "waiting" THEN "ready" ELSE cb
  /\ UNCHANGED <<poolVars, holders, enterCalls, exitOk, exitFailed, profiledFut,
                 captured, cbHolder, cbResult>>

\* Future::markCompleted(value) on the wrapped future
MarkCompleted == \E v \in Values : Complete([state |-> "value", payload |-> v])

\* Future::setError(eptr) on the wrapped future
SetError == \E e \in Errors : Complete([state |-> "error", payload |-> e])

\* the continuation runs futureProfilingFunc on the completed future
RunContinuation ==
  /\ cb = "ready"
  /\ LET r == futureProfilingFunc(captured, holders, fut)
     IN  /\ cbHolder' = IF captured = 0 THEN NoHolder ELSE holders[captured]
         /\ cbResult' = r.result
         /\ events' = IF r.called THEN Append(events, "exit") ELSE events
         /\ IF r.called
            THEN /\ holders' = [holders EXCEPT ![captured] = r.holder]
                 /\ exitOk' = [exitOk EXCEPT ![captured] = IF r.raised THEN @ ELSE @ + 1]
                 /\ exitFailed' = [exitFailed EXCEPT ![captured] = IF r.raised THEN @ + 1 ELSE @]
            ELSE UNCHANGED <<holders, exitOk, exitFailed>>
  /\ cb' = "returned"
  /\ UNCHANGED <<poolVars, enterCalls, fut, profiledFut, captured>>

\* then() completes the returned future with what the continuation
\* returned (markCompleted) or raised (setError)
CompleteChild ==
  /\ cb = "returned"
  /\ profiledFut' = cbResult
  /\ events' = Append(events, "returned")
  /\ cb' = "done"
  /\ UNCHANGED <<poolVars, holders, enterCalls, exitOk, exitFailed, fut,
                 captured, cbHolder, cbResult>>

NextProfiler ==
  \/ Construct
  \/ Do_record_function_enter
  \/ Do_enter
  \/ Do_exit
  \/ Do_record_function_exit
  \/ Do_call_end_callbacks_on_fut
  \/ MarkCompleted
  \/ SetError
  \/ RunContinuation
  \/ CompleteChild

SpecProfiler == Init /\ [][NextProfiler]_vars

\* ======================================================== properties
Count(tr, e) == Cardinality({i \in 1..Len(tr) : tr[i] = e})
KernelCalls == Count(trace, "adaptive_avg_pool2d_kernel")

IsSymint == op = "adaptive_avg_pool2d_symint"
IsCpu == op = "adaptive_avg_pool2d_cpu"
IsOutCpu == op = "adaptive_avg_pool2d_out_cpu"
IsBackwardCpu == op = "adaptive_avg_pool2d_backward_cpu"
IsBackwardOutCpu == op = "adaptive_avg_pool2d_backward_out_cpu"

\* the input is 3-d or 4-d with non-empty height and width
InputShapeOk == dim(input) \in {3, 4} /\ input.sizes[dim(input) - 1] > 0
                                      /\ input.sizes[dim(input)] > 0
OutputSizeOk == Len(output_size) = 2 /\ output_size[1] >= 0 /\ output_size[2] >= 0

\* [C, outH, outW] or [N, C, outH, outW]
ExpectedSizes ==
  IF dim(input) = 3
  THEN <<input.sizes[1], output_size[1], output_size[2]>>
  ELSE <<input.sizes[1], input.sizes[2], output_size[1], output_size[2]>>

ValidationErrors == {"ShapeContractViolation", "DtypeMismatch"}

\* C1 (as claimed): every adaptive_avg_pool2d_symint call on a non-mkldnn
\* input whose rank is not 3 or 4, or whose height or width is 0, raises a
\* ShapeContractViolation and returns no tensor, whatever the output size.
C1_Claim ==
  (IsSymint /\ ~input.is_mkldnn /\ ~InputShapeOk)
    => (err = "ShapeContractViolation" /\ result = NoTensor)

\* C2: a successful adaptive_avg_pool2d_cpu / adaptive_avg_pool2d_out_cpu
\* call on a valid input with a non-negative output size leaves output with
\* sizes [C,outH,outW] (rank 3) or [N,C,outH,outW] (rank 4), whatever sizes
\* output had before, and returns that tensor.
C2_OutputShape ==
  ((IsCpu \/ IsOutCpu) /\ err = "none" /\ InputShapeOk /\ OutputSizeOk)
    => (output.sizes = ExpectedSizes /\ result = output)

C2_Witness ==
  /\ IsOutCpu /\ err = "none" /\ input.sizes = <<2, 1, 2, 2>>
  /\ output_size = <<2, 1>> /\ output0.sizes = <<1, 1, 1>>
  /\ output.sizes = <<2, 1, 2, 1>>

\* the checks of a forward call through the template all pass, and the
\* output size has no negative element
ValidForward ==
  /\ InputShapeOk /\ OutputSizeOk
  /\ IsOutCpu => output0.dtype = input.dtype

\* the call ran adaptive_avg_pool2d_out_cpu_template
RanTemplate ==
  IsCpu \/ IsOutCpu \/ (IsSymint /\ Count(trace, "_adaptive_avg_pool2d") = 1)

C4_Claim ==
  ((IsSymint \/ IsOutCpu) /\ Len(output_size) = 2 /\ HasNegative(output_size))
    => (err = "ShapeContractViolation" /\ trace = <<>>)

\* C8: a adaptive_avg_pool2d_symint call with a well-formed output_size
\* takes exactly one of the three paths: mkldnn iff the input is mkldnn
\* (also for 1x1); else the global mean iff the input is not quantized, the
\* size is 1x1 and the input is not on xpu; else the generic one.  The
\* mkldnn and the global-mean path never invoke the pooling kernel.
C8_Dispatch ==
  (IsSymint /\ OutputSizeOk)
    => LET mk == Count(trace, "mkldnn_adaptive_avg_pool2d")
           gm == Count(trace, "mean") + Count(trace, "global_average_pool")
           gen == Count(trace, "_adaptive_avg_pool2d")
           fast == ~input.is_quantized /\ output_size = <<1, 1>> /\ ~input.is_xpu
       IN  /\ mk + gm + gen = 1
           /\ mk = 1 <=> input.is_mkldnn
           /\ gm = 1 <=> (~input.is_mkldnn /\ fast)
           /\ gen = 1 <=> (~input.is_mkldnn /\ ~fast)
           /\ (mk = 1 \/ gm = 1) => KernelCalls = 0

C8_Witness ==
  /\ IsSymint /\ input.is_mkldnn /\ ~input.is_quantized /\ ~input.is_xpu
  /\ output_size = <<1, 1>> /\ trace = <<"mkldnn_adaptive_avg_pool2d">>

\* every check of the backward template passes
BackwardValid ==
  /\ dim(grad_output) \in {3, 4}
  /\ \A i \in 2..dim(grad_output) : grad_output.sizes[i] > 0
  /\ grad_output.dtype = input.dtype
  /\ IsBackwardOutCpu => grad_input0.dtype = input.dtype

\* C9: a backward call that passes validation resizes grad_input to the
\* sizes of input, then zeroes it, then invokes the backward kernel, each
\* once; the kernel receives a grad_input of input's sizes that is all zero.
C9_BackwardOrder ==
  ((IsBackwardCpu \/ IsBackwardOutCpu) /\ BackwardValid)
    => /\ err = "none"
       /\ trace = <<"resize_", "zero_", "adaptive_avg_pool2d_backward_kernel">>
       /\ seen.sizes = input.sizes /\ seen.data = "zero"
       /\ grad_input.sizes = input.sizes /\ grad_input.data = "grad"

C9_Witness ==
  /\ IsBackwardOutCpu /\ err = "none"
  /\ grad_input0.sizes = <<2, 1, 2, 2>> /\ grad_input0.data = "old"
  /\ input.sizes = <<2, 1, 2, 2>> /\ grad_output.sizes = <<1, 1, 1, 1>>
  /\ seen.data = "zero" /\ Len(trace) = 3

\* one of the checks of the forward template fails
InvalidForward ==
  \/ Len(output_size) # 2
  \/ ~InputShapeOk
  \/ output0.dtype # input.dtype

\* C10: when a check of adaptive_avg_pool2d_out_cpu or of
\* adaptive_avg_pool2d_backward_out_cpu fails, the call raises, invokes
\* nothing, and leaves the caller's output / grad_input as it was (sizes,
\* dtype and contents); a dtype mismatch alone raises DtypeMismatch.
C10_ValidationFrame ==
  /\ (IsOutCpu /\ InvalidForward)
       => /\ err \in ValidationErrors /\ trace = <<>>
          /\ output = output0 /\ result = NoTensor
          /\ (Len(output_size) = 2 /\ InputShapeOk) => err = "DtypeMismatch"
  /\ (IsBackwardOutCpu /\ ~BackwardValid)
       => /\ err \in ValidationErrors /\ trace = <<>>
          /\ grad_input = grad_input0 /\ result = NoTensor /\ seen = NoTensor
          /\ (dim(grad_output) \in {3, 4}
                /\ \A i \in 2..dim(grad_output) : grad_output.sizes[i] > 0)
               => err = "DtypeMismatch"

C10_Witness ==
  /\ IsOutCpu /\ err = "DtypeMismatch" /\ input.sizes = <<1, 2, 2>>
  /\ output_size = <<1, 1>> /\ output0.sizes = <<1, 1, 1>>
  /\ output0.data = "old" /\ output = output0

\* ------------------------------------------------------------ profiler
Pos(e) == IF \E i \in 1..Len(events) : events[i] = e
          THEN CHOOSE i \in 1..Len(events) : events[i] = e
          ELSE 0

PreconditionViolation == [state |-> "error", payload |-> "PreconditionViolation"]
InternalAssert == [state |-> "error", payload |-> "InternalAssert"]

\* C5 (as claimed): on every holder the exit() calls that succeed never
\* outnumber the enter() calls.
C5_Claim == \A h \in Holders : exitOk[h] <= enterCalls[h]

\* C5 (amended): an exit() fails exactly when enter() was never called on
\* the holder; once enter() has been called, every exit() succeeds.
C5_ExitChecksEnterOnly ==
  [][\A h \in Holders :
       /\ exitFailed'[h] > exitFailed[h] => enterCalls[h] = 0
       /\ exitOk'[h] > exitOk[h] => enterCalls[h] > 0
       /\ exitOk'[h] + exitFailed'[h] > exitOk[h] + exitFailed[h]
            => (exitFailed'[h] > exitFailed[h] <=> enterCalls[h] = 0)]_vars

C5_Witness ==
  \E h1, h2 \in Holders :
    /\ enterCalls[h1] = 0 /\ exitFailed[h1] = 1
    /\ enterCalls[h2] = 1 /\ exitOk[h2] = 2

\* C6 (as claimed), for a defined holder: the returned future always
\* resolves with the outcome of the wrapped future, and with an error
\* outcome exit() was called exactly once by the continuation.
C6_Claim ==
  (captured # 0 /\ Resolved(profiledFut))
    => (profiledFut = fut /\ (fut.state = "error" => Count(events, "exit") = 1))

\* C6 (amended): with a defined holder on which enter() was called before
\* the continuation ran, the continuation calls exit() once and the
\* returned future resolves with the wrapped future's value or error; with
\* a holder never entered the one exit() fails, and with an undefined
\* holder exit() is not called, and the returned future resolves with that
\* failure.
C6_PropagatesWhenEntered ==
  Resolved(profiledFut)
    => IF captured # 0 /\ cbHolder.set
         THEN profiledFut = fut /\ Count(events, "exit") = 1
       ELSE IF captured # 0
         THEN profiledFut = PreconditionViolation /\ Count(events, "exit") = 1
       ELSE profiledFut = InternalAssert /\ Count(events, "exit") = 0

C6_Witness ==
  /\ captured # 0 /\ cbHolder.set
  /\ fut = [state |-> "error", payload |-> "e2"]
  /\ profiledFut = fut /\ Count(events, "exit") = 1

\* C7 (as claimed): the wrapped future resolves, then exit() runs, then the
\* returned future resolves; exit() never runs before the wrapped future
\* resolved and the returned future never resolves before exit() ran.
C7_Claim ==
  /\ Count(events, "exit") > 0
       => (Resolved(fut) /\ 0 < Pos("resolved") /\ Pos("resolved") < Pos("exit"))
  /\ Resolved(profiledFut)
       => (Count(events, "exit") = 1 /\ Pos("exit") < Pos("returned"))

\* C7 (amended): with a defined holder the order is wrapped future
\* resolves, exit() runs, returned future resolves; with an undefined
\* holder exit() never runs and the returned future still resolves only
\* after the wrapped one.
C7_OrderWhenDefined ==
  /\ Count(events, "exit") > 0
       => (Resolved(fut) /\ 0 < Pos("resolved") /\ Pos("resolved") < Pos("exit"))
  /\ Resolved(profiledFut)
       => /\ Resolved(fut) /\ 0 < Pos("resolved") /\ Pos("resolved") < Pos("returned")
          /\ IF captured # 0
             THEN Count(events, "exit") = 1 /\ Pos("exit") < Pos("returned")
             ELSE Count(events, "exit") = 0
  /\ ~Resolved(profiledFut) => Pos("returned") = 0

C7_Witness ==
  /\ captured # 0 /\ Resolved(profiledFut)
  /\ events = <<"resolved", "exit", "returned">>

====
